---- MODULE Spec2Model ----
(***************************************************************************)
(* A model of the rule-driven AST translator of                            *)
(* other/franca/rule_translator.py: transform() and its helpers set_attr,  *)
(* eval_mapping, transform_value_common, is_builtin and _log.              *)
(*                                                                         *)
(* transform() is recursive.  The model keeps the Python call stack as a   *)
(* sequence of frames; one action is one step of the innermost frame: the  *)
(* rule lookup, one iteration of the first loop (explicit mappings), one   *)
(* iteration of the second loop (same-name mappings), one element of a     *)
(* collection, the construction of the target object.  An exception       *)
(* unwinds the whole stack, since nothing in the module catches one.       *)
(*                                                                         *)
(* A second specification, FrancaSpec, models the direct converter of      *)
(* other/franca/franca_to_ifex.py: its conversion functions are operators, *)
(* applied by the steps of franca_to_ifex() to packages drawn from a       *)
(* bounded set.                                                            *)
(***************************************************************************)
EXTENDS Integers, Sequences, FiniteSets, TLC

VARIABLES
    mapping_table,  \* the translation table handed to transform()
    table0,         \* history: the table as it was before the first call
    stack,          \* the call stack of transform(), innermost frame last
    outcome,        \* how the last top-level transform() call ended
    runs,           \* number of top-level transform() calls started
    counter,        \* process-wide counter used by table-supplied callables
    log_calls,      \* history: the calls of _log made in the current run
    last_tvc,       \* history: the last collection transform_value_common produced
    built,          \* history: the target objects constructed in the current run, in order
    conversion      \* the run of franca_to_ifex(): its input, position and results

vars == <<mapping_table, table0, stack, outcome, runs, counter, log_calls, last_tvc,
          built, conversion>>

-----------------------------------------------------------------------------
(* Bounds *)

\* top-level transform() calls made with one table
MaxRuns == 2
\* longest list held by a source attribute
MaxLen == 2

-----------------------------------------------------------------------------
(* Python values.  Every value is a record of one shape, so that values of  *)
(* different Python types can be compared:                                  *)
(*   k = "none"   None                                                      *)
(*   k = "int"    the integer n                                             *)
(*   k = "list"   a list; items[i].val are its elements                     *)
(*   k = "odict"  an OrderedDict; items are its (name, val) pairs in order  *)
(*   k = "node"   an instance of source AST class cls; items are its vars() *)
(*   k = "tnode"  an instance of target AST class cls; items its fields     *)
(*   k = "ref"    the list object held as const_value by entry m of rule    *)
(*                list n of the table (the same object, not a copy)         *)

Val(k, n, m, cls, items) == [k |-> k, n |-> n, m |-> m, cls |-> cls, items |-> items]

None == Val("none", 0, 0, "", <<>>)

IntV(n) == Val("int", n, 0, "", <<>>)

Item(name, val) == [name |-> name, val |-> val]

RECURSIVE Unnamed(_)
Unnamed(s) == IF s = <<>> THEN <<>> ELSE <<Item("", Head(s))>> \o Unnamed(Tail(s))

\* a Python list with the elements of the sequence s
List(s) == Val("list", 0, 0, "", Unnamed(s))

\* an OrderedDict with the (name, val) pairs of the sequence items
ODict(items) == Val("odict", 0, 0, "", items)

\* an instance of source class cls whose vars() are items, in definition order
Node(cls, items) == Val("node", 0, 0, cls, items)

Ref(ti, mi) == Val("ref", ti, mi, "", <<>>)

Names(items) == {items[i].name : i \in 1..Len(items)}

\* index of the entry of items named name (0: none)
IndexOf(items, name) ==
    IF name \in Names(items)
    THEN CHOOSE i \in 1..Len(items) : items[i].name = name
    ELSE 0

Vals(items) == [i \in 1..Len(items) |-> items[i].val]

-----------------------------------------------------------------------------
(* The translation table.                                                  *)
(*   mapping_table.type_map: the dict {(from_class, to_class): mappings}   *)
(*     as the sequence of its items in insertion order;                    *)
(*   mapping_table.global_attribute_map: the dict {attr: attr or None}     *)
(*     as the sequence of its items.                                       *)
(* An entry of a rule list is Preparation(func) or a tuple                 *)
(* (input, output) or (input, output, function).                           *)

\* the value None where an attribute name is expected
NoneName == "<None>"

\* the class Unsupported where an attribute name is expected
UnsupportedName == "<Unsupported>"

\* Preparation(func)
Preparation(func) ==
    [prep |-> TRUE, func |-> func, input_attr |-> "", const |-> FALSE,
     const_value |-> None, output_attr |-> "", fn |-> <<>>]

\* the tuple (input_attr, output_attr)
Map(input_attr, output_attr) ==
    [prep |-> FALSE, func |-> "", input_attr |-> input_attr, const |-> FALSE,
     const_value |-> None, output_attr |-> output_attr, fn |-> <<>>]

\* the tuple (input_attr, output_attr, fn)
MapFn(input_attr, output_attr, fn) ==
    [prep |-> FALSE, func |-> "", input_attr |-> input_attr, const |-> FALSE,
     const_value |-> None, output_attr |-> output_attr, fn |-> <<fn>>]

\* the tuple (Constant(const_value), output_attr)
Constant(const_value, output_attr) ==
    [prep |-> FALSE, func |-> "", input_attr |-> "<Constant>", const |-> TRUE,
     const_value |-> const_value, output_attr |-> output_attr, fn |-> <<>>]

Rule(from_class, to_class, mappings) ==
    [from_class |-> from_class, to_class |-> to_class, mappings |-> mappings]

\* the fields the dataclass to_class declares (to_class.__dataclass_fields__)
dataclass_fields(to_class) ==
    IF to_class = "TX" THEN {"name", "x", "y", "t", "items", "kids"}
    ELSE IF to_class = "TY" THEN {"name", "x"}
    ELSE {}

\* the fields of to_class that have no default: the constructor requires them
mandatory_fields(to_class) ==
    IF to_class \in {"TX", "TY"} THEN {"name"} ELSE {}

\* value the process-wide counter is reset to by the hook "reset"
CounterInit == 0

-----------------------------------------------------------------------------
(* Helper functions of rule_translator.py *)

\* number of positional parameters of _log(level, string)
LogParams == 2

\* number of arguments of the call _log("DEBUG" "Target value ...") in set_attr:
\* the two adjacent string literals are one argument
ConflictDebugArgs == 1

\* _log(level, string): the body is "pass", nothing is printed; the history
\* records that the call was made.  A call with another number of arguments
\* than LogParams raises TypeError before the body runs.
_log(calls, level) == Append(calls, level)

log_call_fails(nargs) == nargs # LogParams

\* is_builtin(x): x.__class__.__module__ == 'builtins'.  None, int and list are
\* builtins; OrderedDict (module collections) and the AST classes are not.
is_builtin(x) == x.k \in {"none", "int", "list"}

\* x.__class__ of an object that is not a builtin
class_of(x) == IF x.k = "odict" THEN "OrderedDict" ELSE x.cls

\* hash(x) succeeds: lists and OrderedDicts are unhashable
hashable(x) == x.k \notin {"list", "odict"}

\* constant_hashable for a Constant whose hash does not depend on its field
constant_hashable_always(m) == TRUE

\* hash(Constant(const_value)): the frozen dataclass hashes the tuple of its fields
constant_hashable(m) == hashable(m.const_value)

\* isinstance(value, list)
is_list(value) == value.k \in {"list", "ref"}

\* the result of set_attr: the dict, the table (a list object appended to may be
\* one the table holds), the _log calls made, and the exception raised, if any
SetAttrResult(attributes, table, logs, exc, line) ==
    [attributes |-> attributes, table |-> table, logs |-> logs, exc |-> exc, line |-> line]

\* list_append with extend in the place of append: a list is added element by element
list_extend(attributes, table, idx, attr_value) ==
    LET value == attributes[idx].val
        more == IF attr_value.k = "list" THEN attr_value.items ELSE <<Item("", attr_value)>>
    IN  IF value.k = "ref"
        THEN SetAttrResult(attributes,
                 [table EXCEPT !.type_map[value.n].mappings[value.m].const_value.items =
                      @ \o more],
                 <<>>, "", 0)
        ELSE SetAttrResult([attributes EXCEPT ![idx].val.items = @ \o more],
                           table, <<>>, "", 0)

\* value.append(attr_value) on the list object at index idx of the dict
list_append(attributes, table, idx, attr_value) ==
    LET value == attributes[idx].val
    IN  IF value.k = "ref"
        THEN SetAttrResult(attributes,
                 [table EXCEPT !.type_map[value.n].mappings[value.m].const_value.items =
                      Append(@, Item("", attr_value))],
                 <<>>, "", 0)
        ELSE SetAttrResult(
                 [attributes EXCEPT ![idx].val.items = Append(@, Item("", attr_value))],
                 table, <<>>, "", 0)

\* the scalar branch of set_attr: _log("ERR", ...), then _log("DEBUG" "...")
scalar_conflict(attributes, table) ==
    IF log_call_fails(ConflictDebugArgs)
    THEN SetAttrResult(attributes, table, <<"ERR">>, "TypeError", 177)
    ELSE SetAttrResult(attributes, table, <<"ERR", "DEBUG">>, "", 0)

\* set_attr assigning whether or not the key is present
set_attr_overwrite(attributes, table, attr_key, attr_value) ==
    LET idx == IndexOf(attributes, attr_key)
    IN  IF idx # 0
        THEN SetAttrResult([attributes EXCEPT ![idx].val = attr_value], table, <<>>, "", 0)
        ELSE SetAttrResult(Append(attributes, Item(attr_key, attr_value)), table, <<>>, "", 0)

\* set_attr(attrs_dict, attr_key, attr_value)
set_attr(attributes, table, attr_key, attr_value) ==
    LET idx == IndexOf(attributes, attr_key)
    IN  IF idx # 0
        THEN IF is_list(attributes[idx].val)
             THEN list_append(attributes, table, idx, attr_value)
             ELSE scalar_conflict(attributes, table)
        ELSE SetAttrResult(Append(attributes, Item(attr_key, attr_value)), table, <<>>, "", 0)

\* eval_mapping(type_map_entry): (preparation_function, input_attr, output_attr,
\* transform_function); None is the empty sequence, a one-element sequence otherwise
eval_mapping(m) ==
    IF m.prep
    THEN [preparation_function |-> <<m.func>>, input_attr |-> <<>>,
          output_attr |-> <<>>, transform_function |-> <<>>]
    ELSE [preparation_function |-> <<>>, input_attr |-> <<m.input_attr>>,
          output_attr |-> <<m.output_attr>>, transform_function |-> m.fn]

\* find_rule with the search keeping the last match instead of stopping at the first
find_rule_last(type_map, cls) ==
    IF \E i \in 1..Len(type_map) : type_map[i].from_class = cls
    THEN CHOOSE i \in 1..Len(type_map) :
             /\ type_map[i].from_class = cls
             /\ \A j \in (i + 1)..Len(type_map) : type_map[j].from_class # cls
    ELSE 0

\* the linear search of transform(): index in type_map of the first key whose
\* from_class is the class of the input object (0: the loop ends without a match)
find_rule(type_map, cls) ==
    IF \E i \in 1..Len(type_map) : type_map[i].from_class = cls
    THEN CHOOSE i \in 1..Len(type_map) :
             /\ type_map[i].from_class = cls
             /\ \A j \in 1..(i - 1) : type_map[j].from_class # cls
    ELSE 0

\* preparation_call with the function not called
preparation_skipped(func, c) == c

\* the table-supplied callables.  preparation_function(): "reset" sets the
\* process-wide counter to CounterInit.
preparation_call(func, c) == IF func = "reset" THEN CounterInit ELSE c

\* transform_function(value): none given is the identity lambda; "count" returns
\* the counter and increments it
transform_call(fn, value, c) ==
    IF fn = <<>>
    THEN [val |-> value, counter |-> c]
    ELSE [val |-> IntV(c), counter |-> c + 1]

\* global_name with the global attribute map left out of account
global_name_same(gam, attr) == attr

\* global_attribute_map.get(attr) if attr in global_attribute_map else attr
global_name(gam, attr) ==
    IF attr \in Names(gam) THEN gam[IndexOf(gam, attr)].val ELSE attr

\* to_class(**attributes) raises TypeError: a keyword that is no field of the
\* dataclass, or a field without default that is not given
constructor_fails(to_class, attributes) ==
    \/ ~(Names(attributes) \subseteq dataclass_fields(to_class))
    \/ ~(mandatory_fields(to_class) \subseteq Names(attributes))

\* to_class(**attributes)
construct(to_class, attributes) == Val("tnode", 0, 0, to_class, attributes)

-----------------------------------------------------------------------------
(* Inputs: the source trees and the tables transform() is called with.     *)
(* Source classes SA (attributes name, x, y, items, kids) and SB (name, x) *)
(* have rules; class SU has none.  Target classes are TX and TY.           *)

SB(n) == Node("SB", <<Item("name", IntV(n)), Item("x", IntV(10 + n))>>)

SU == Node("SU", <<Item("name", IntV(9))>>)

SA(n, x, y, items, kids) ==
    Node("SA", <<Item("name", IntV(n)), Item("x", x), Item("y", y),
                 Item("items", List(items)), Item("kids", kids)>>)

Elems == {SB(1), SB(2), SU, IntV(4)}

ItemLists == UNION {[1..n -> Elems] : n \in 0..MaxLen}

\* an SA node below the root, holding an object of the class without rule
InnerSA == SA(3, IntV(7), IntV(8), <<SB(1), SU>>, ODict(<<>>))

TwoKids == ODict(<<Item("a", SB(2)), Item("b", SB(1))>>)

\* the values of x, y and kids of the root; in the last one x holds an object
\* of a class with a rule, directly and not in a collection
RootChoices ==
    { <<None, IntV(8), TwoKids>>,
      <<IntV(7), None, TwoKids>>,
      <<SB(2), IntV(8), TwoKids>>,
      <<IntV(7), IntV(8), ODict(<<Item("a", InnerSA)>>)>> }

Trees ==
    {SA(1, c[1], c[2], items, c[3]) : c \in RootChoices, items \in ItemLists}
    \cup {IntV(3), SU, ODict(<<>>)}

\* a table: rule list sa for (SA, TX), rule list sb for (SB, TY); each source
\* class is also the first component of a second, later key
Table(sa, sb, gam) ==
    [type_map |-> << Rule("SA", "TX", sa), Rule("SA", "TY", <<>>),
                     Rule("SB", "TY", sb), Rule("SB", "TX", <<>>) >>,
     global_attribute_map |-> gam]

Renames == <<Item("y", "t"), Item("kids", NoneName)>>

Tables ==
    { Table(<<>>, <<>>, <<>>),
      Table(<<>>, <<>>, Renames),
      Table(<<Map("x", NoneName)>>, <<>>, <<>>),
      Table(<<Map("y", NoneName)>>, <<>>, Renames),
      Table(<<Constant(IntV(5), "t")>>, <<>>, <<>>),
      Table(<<Map("items", "t"), Constant(IntV(5), "t")>>, <<>>, <<>>),
      Table(<<Constant(List(<<IntV(5)>>), "t"), Map("x", "t")>>, <<>>, <<>>),
      Table(<<Constant(IntV(5), "t"), Map("x", "t")>>, <<>>, <<>>),
      Table(<<Map("y", "y"), Map("x", UnsupportedName)>>, <<>>, <<>>),
      Table(<<Map("x", UnsupportedName), Map("y", "y")>>, <<>>, <<>>),
      Table(<<Map("x", "t"), Map("y", "t")>>, <<>>, <<>>),
      Table(<<Map("x", "y")>>, <<>>, <<>>),
      Table(<<Map("items", "t"), Map("kids", "t"), Map("x", "t")>>, <<>>, <<>>),
      Table(<<Map("items", "items"), Preparation("reset"), MapFn("y", "y", "count"),
              MapFn("x", "t", "count")>>,
            <<Preparation("reset"), MapFn("x", "x", "count")>>, <<>>) }

-----------------------------------------------------------------------------
(* The call stack.  A frame is one activation of transform():              *)
(*   obj         input_obj                                                 *)
(*   pc          "start": before the builtin test and the rule lookup      *)
(*               "loop1": in the first loop, before entry i of mappings    *)
(*               "items": in a comprehension of transform_value_common,    *)
(*                        before element j of the collection src           *)
(*               "loop2": in the second loop, before attribute i of obj    *)
(*   ti          index in type_map of the rule found                       *)
(*   attributes  the dict attributes, in insertion order                   *)
(*   done_attrs  the set done_attrs                                        *)
(*   value       the local variable value: <<>> while it is unbound        *)
(*   key, phase  the target attribute the collection is for, and the loop  *)
(*   acc         the elements the comprehension has produced so far        *)
(* History fields: origin[k] lists the source attributes that contributed  *)
(* to attributes[k]; calls lists the transform() calls of the              *)
(* comprehension with their results; hooks counts the preparation          *)
(* functions called; order lists the entries of mappings processed.        *)

NewFrame(obj) ==
    [obj |-> obj, pc |-> "start", ti |-> 0, i |-> 0, attributes |-> <<>>,
     done_attrs |-> {}, value |-> <<>>, key |-> "", phase |-> 0, src |-> <<>>,
     j |-> 0, acc |-> <<>>, origin |-> <<>>, calls |-> <<>>, hooks |-> 0,
     order |-> <<>>]

\* status "none": no call has ended; history: arg is the input of the top-level
\* call, depth the number of active transform() calls when the exception was raised
NoOutcome ==
    [status |-> "none", exc |-> "", line |-> 0, value |-> None, arg |-> None, depth |-> 0]

\* franca_to_ifex() has not been called
NoConversion == [pc |-> "none", package |-> <<>>, structs |-> <<>>, enumerations |-> <<>>]

NoTvc == [src |-> <<>>, out |-> None, calls |-> <<>>, n |-> 0]

Init ==
    /\ mapping_table \in Tables
    /\ table0 = mapping_table
    /\ stack = <<>>
    /\ outcome = NoOutcome
    /\ runs = 0
    /\ counter = CounterInit
    /\ log_calls = <<>>
    /\ last_tvc = NoTvc
    /\ built = <<>>
    /\ conversion = NoConversion

top == stack[Len(stack)]

type_map == mapping_table.type_map

\* the rule list of the innermost frame
mappings == type_map[top.ti].mappings

to_class == type_map[top.ti].to_class

SetTop(f) == [stack EXCEPT ![Len(stack)] = f]

\* Raise with the exception swallowed where it occurs: the call yields None
RaiseSwallowed(exc, line) ==
    IF Len(stack) = 1
    THEN /\ stack' = <<>>
         /\ outcome' = [status |-> "returned", exc |-> "", line |-> 0, value |-> None,
                         arg |-> stack[1].obj, depth |-> 0]
    ELSE /\ stack' = [SubSeq(stack, 1, Len(stack) - 1) EXCEPT ![Len(stack) - 1] =
                         [@ EXCEPT !.acc = Append(@, None), !.j = @ + 1]]
         /\ UNCHANGED outcome

\* raise: no frame of transform() has a handler, the exception leaves the
\* top-level call
Raise(exc, line) ==
    /\ stack' = <<>>
    /\ outcome' = [status |-> "raised", exc |-> exc, line |-> line, value |-> None,
                    arg |-> stack[1].obj, depth |-> Len(stack)]

\* collect with the new element put in front
collect_front(acc, r) == <<r>> \o acc

\* one more element of the list a comprehension builds
collect(acc, r) == Append(acc, r)

\* return r: to the comprehension of the calling frame, or out of the top-level call
Return(r) ==
    IF Len(stack) = 1
    THEN /\ stack' = <<>>
         /\ outcome' = [status |-> "returned", exc |-> "", line |-> 0, value |-> r,
                         arg |-> top.obj, depth |-> 0]
    ELSE LET caller == stack[Len(stack) - 1]
         IN  /\ stack' = [SubSeq(stack, 1, Len(stack) - 1) EXCEPT ![Len(stack) - 1] =
                             [caller EXCEPT !.acc = collect(@, r),
                                            !.calls = Append(@, [arg |-> top.obj, ret |-> r]),
                                            !.j = @ + 1]]
             /\ UNCHANGED outcome

\* the innermost frame goes on as f
Step(f, table, c, logs) ==
    /\ stack' = SetTop(f)
    /\ mapping_table' = table
    /\ counter' = c
    /\ log_calls' = log_calls \o logs
    /\ UNCHANGED outcome

\* an exception is raised in the innermost frame
Abort(exc, line, table, c, logs) ==
    /\ Raise(exc, line)
    /\ mapping_table' = table
    /\ counter' = c
    /\ log_calls' = log_calls \o logs

\* history: the contributors of each key of attributes after set_attr(key, ...)
origin_after(attributes, origin, key, label) ==
    LET idx == IndexOf(attributes, key)
    IN  IF idx = 0 THEN Append(origin, <<label>>)
        ELSE IF is_list(attributes[idx].val) THEN [origin EXCEPT ![idx] = Append(@, label)]
        ELSE origin

\* done_attrs.add(input_attr) raises TypeError: input_attr is an unhashable Constant
add_fails(m) == m.const /\ ~constant_hashable(m)

\* lines 277-280 / 306: set_attr(attributes, key, v), then in the first loop
\* done_attrs.add(input_attr), then the next iteration of the loop
Assign(f, key, v, label, c, logs) ==
    LET r == set_attr(f.attributes, mapping_table, key, v)
        g == [f EXCEPT !.attributes = r.attributes,
                       !.origin = origin_after(f.attributes, f.origin, key, label),
                       !.pc = IF f.phase = 1 THEN "loop1" ELSE "loop2",
                       !.i = @ + 1]
    IN  IF r.exc # ""
        THEN Abort(r.exc, r.line, r.table, c, logs \o r.logs)
        ELSE IF f.phase = 1
        THEN IF add_fails(mappings[f.i])
             THEN Abort("TypeError", 280, r.table, c, logs \o r.logs)
             ELSE Step([g EXCEPT !.done_attrs = @ \cup {mappings[f.i].input_attr}],
                       r.table, c, logs \o r.logs)
        ELSE Step(g, r.table, c, logs \o r.logs)

-----------------------------------------------------------------------------
(* Actions *)

\* a top-level call transform(mapping_table, t)
Call(t) ==
    /\ stack = <<>>
    /\ runs < MaxRuns
    /\ stack' = <<NewFrame(t)>>
    /\ runs' = runs + 1
    /\ outcome' = NoOutcome
    /\ log_calls' = <<>>
    /\ last_tvc' = NoTvc
    /\ built' = <<>>
    /\ UNCHANGED <<mapping_table, table0, conversion, counter>>

\* lines 219-220: a builtin is returned as it is
ReturnBuiltin ==
    /\ stack # <<>>
    /\ top.pc = "start"
    /\ is_builtin(top.obj)
    /\ Return(top.obj)
    /\ UNCHANGED <<mapping_table, table0, built, conversion, runs, counter, log_calls, last_tvc>>

\* lines 225-240 and 316-318: the search of the rule
FindRule ==
    /\ stack # <<>>
    /\ top.pc = "start"
    /\ ~is_builtin(top.obj)
    /\ LET ti == find_rule(type_map, class_of(top.obj))
       IN  IF ti = 0
           THEN Abort("TypeError", 318, mapping_table, counter, _log(<<>>, "ERR:"))
           ELSE Step([top EXCEPT !.pc = "loop1", !.ti = ti, !.i = 1, !.phase = 1],
                     mapping_table, counter, _log(<<>>, "INFO"))
    /\ UNCHANGED <<table0, built, conversion, runs, last_tvc>>

InLoop1 ==
    /\ stack # <<>>
    /\ top.pc = "loop1"
    /\ top.i <= Len(mappings)

\* entry i of the rule list, as the first loop sees it
entry == eval_mapping(mappings[top.i])

\* lines 253-256: a Preparation entry
PreparationEntry ==
    /\ InLoop1
    /\ entry.preparation_function # <<>>
    /\ Step([top EXCEPT !.i = @ + 1, !.hooks = @ + 1, !.order = Append(@, top.i)],
            mapping_table, preparation_call(entry.preparation_function[1], counter),
            _log(<<>>, "INFO"))
    /\ UNCHANGED <<table0, built, conversion, runs, last_tvc>>

\* lines 262-264: an entry mapped to None
IgnoredEntry ==
    /\ InLoop1
    /\ entry.preparation_function = <<>>
    /\ entry.output_attr[1] = NoneName
    /\ Step([top EXCEPT !.i = @ + 1, !.order = Append(@, top.i)],
            mapping_table, counter, <<"INFO", "DEBUG">>)
    /\ UNCHANGED <<table0, built, conversion, runs, last_tvc>>

\* lines 267-270: an entry mapped to Unsupported.  The test reads the local
\* variable value, which the entry does not assign; the message reads input_obj.name.
UnsupportedEntry ==
    /\ InLoop1
    /\ entry.preparation_function = <<>>
    /\ entry.output_attr[1] = UnsupportedName
    /\ LET f == [top EXCEPT !.i = @ + 1, !.order = Append(@, top.i)]
       IN  IF top.value = <<>>
           THEN Abort("UnboundLocalError", 268, mapping_table, counter, <<"INFO">>)
           ELSE IF top.value[1] # None
           THEN IF "name" \in Names(top.obj.items)
                THEN Step(f, mapping_table, counter, <<"INFO", "ERR">>)
                ELSE Abort("AttributeError", 269, mapping_table, counter, <<"INFO">>)
           ELSE Step(f, mapping_table, counter, <<"INFO">>)
    /\ UNCHANGED <<table0, built, conversion, runs, last_tvc>>

\* the object a Constant entry hands to set_attr: a list is handed over as the
\* object the table holds
constant_arg(ti, i, m) == IF m.const_value.k = "list" THEN Ref(ti, i) ELSE m.const_value

\* lines 273-274 and 280: a Constant entry
ConstantEntry ==
    /\ InLoop1
    /\ entry.preparation_function = <<>>
    /\ entry.output_attr[1] \notin {NoneName, UnsupportedName}
    /\ mappings[top.i].const
    /\ Assign([top EXCEPT !.order = Append(@, top.i)], entry.output_attr[1],
              constant_arg(top.ti, top.i, mappings[top.i]), "<Constant>",
              counter, <<"INFO">>)
    /\ UNCHANGED <<table0, built, conversion, runs, last_tvc>>

\* transform_value_common recurses into this value
is_collection(value) == value.k \in {"odict", "list"}

\* the frame f enters the comprehension over the collection value
Comprehend(f, key, value) ==
    [f EXCEPT !.pc = "items", !.key = key, !.src = value.items, !.j = 1,
              !.acc = <<>>, !.calls = <<>>]

\* lines 276-280: an entry that maps a source attribute
AttributeEntry ==
    /\ InLoop1
    /\ entry.preparation_function = <<>>
    /\ entry.output_attr[1] \notin {NoneName, UnsupportedName}
    /\ ~mappings[top.i].const
    /\ LET idx == IndexOf(top.obj.items, entry.input_attr[1])
           value == top.obj.items[idx].val
           f == [top EXCEPT !.value = <<value>>, !.order = Append(@, top.i)]
           t == transform_call(entry.transform_function, value, counter)
       IN  IF idx = 0
           THEN Abort("AttributeError", 276, mapping_table, counter, <<"INFO">>)
           ELSE IF is_collection(value)
           THEN Step(Comprehend(f, entry.output_attr[1], value),
                     mapping_table, counter, <<"INFO">>)
           ELSE Assign(f, entry.output_attr[1], t.val, entry.input_attr[1],
                       t.counter, <<"INFO">>)
    /\ UNCHANGED <<table0, built, conversion, runs, last_tvc>>

\* the first loop ends, the second begins
Loop1Done ==
    /\ stack # <<>>
    /\ top.pc = "loop1"
    /\ top.i > Len(mappings)
    /\ Step([top EXCEPT !.pc = "loop2", !.i = 1, !.phase = 2],
            mapping_table, counter, <<>>)
    /\ UNCHANGED <<table0, built, conversion, runs, last_tvc>>

\* lines 205 and 208: transform(mapping_table, item) for the next element
TransformItem ==
    /\ stack # <<>>
    /\ top.pc = "items"
    /\ top.j <= Len(top.src)
    /\ stack' = Append(stack, NewFrame(top.src[top.j].val))
    /\ UNCHANGED <<mapping_table, table0, built, conversion, outcome, runs, counter, log_calls, last_tvc>>

\* the source attribute the innermost frame is working on
current_attr ==
    IF top.phase = 1 THEN mappings[top.i].input_attr ELSE top.obj.items[top.i].name

\* lines 205-213: the comprehension is complete; its list is the value of
\* transform_value_common, which goes to set_attr
CollectionDone ==
    /\ stack # <<>>
    /\ top.pc = "items"
    /\ top.j > Len(top.src)
    /\ Assign(top, top.key, List(top.acc), current_attr, counter, <<>>)
    /\ last_tvc' = [src |-> top.src, out |-> List(top.acc), calls |-> top.calls,
                    n |-> last_tvc.n + 1]
    /\ UNCHANGED <<table0, built, conversion, runs>>

\* lines 292-310: one attribute of vars(input_obj) in the second loop
SameNameAttribute ==
    /\ stack # <<>>
    /\ top.pc = "loop2"
    /\ top.i <= Len(top.obj.items)
    /\ LET a == top.obj.items[top.i]
           attr == global_name(mapping_table.global_attribute_map, a.name)
           f == [top EXCEPT !.value = <<a.val>>]
       IN  IF a.name \in top.done_attrs
           THEN Step([f EXCEPT !.i = @ + 1], mapping_table, counter, <<>>)
           ELSE IF attr \in dataclass_fields(to_class)
           THEN IF is_collection(a.val)
                THEN Step(Comprehend(f, attr, a.val), mapping_table, counter, <<"DEBUG">>)
                ELSE Assign(f, attr, transform_call(<<>>, a.val, counter).val, a.name,
                            counter, <<"DEBUG">>)
           ELSE IF attr # NoneName
           THEN Step([f EXCEPT !.i = @ + 1], mapping_table, counter, <<"WARN">>)
           ELSE Step([f EXCEPT !.i = @ + 1], mapping_table, counter, <<>>)
    /\ UNCHANGED <<table0, built, conversion, runs, last_tvc>>

\* Construct taken at any point of the second loop
ConstructEarly ==
    /\ stack # <<>>
    /\ top.pc = "loop2"
    /\ IF constructor_fails(to_class, top.attributes)
       THEN /\ Abort("TypeError", 314, mapping_table, counter, <<"DEBUG">>)
            /\ UNCHANGED built
       ELSE /\ Return(construct(to_class, top.attributes))
            /\ built' = Append(built, construct(to_class, top.attributes))
            /\ log_calls' = _log(log_calls, "DEBUG")
            /\ UNCHANGED <<mapping_table, counter>>
    /\ UNCHANGED <<table0, conversion, runs, last_tvc>>

\* lines 313-314: to_class(**attributes) is built and returned
Construct ==
    /\ stack # <<>>
    /\ top.pc = "loop2"
    /\ top.i > Len(top.obj.items)
    /\ IF constructor_fails(to_class, top.attributes)
       THEN /\ Abort("TypeError", 314, mapping_table, counter, <<"DEBUG">>)
            /\ UNCHANGED built
       ELSE /\ Return(construct(to_class, top.attributes))
            /\ built' = Append(built, construct(to_class, top.attributes))
            /\ log_calls' = _log(log_calls, "DEBUG")
            /\ UNCHANGED <<mapping_table, counter>>
    /\ UNCHANGED <<table0, conversion, runs, last_tvc>>

Next ==
    \/ \E t \in Trees : Call(t)
    \/ ReturnBuiltin
    \/ FindRule
    \/ PreparationEntry
    \/ IgnoredEntry
    \/ UnsupportedEntry
    \/ ConstantEntry
    \/ AttributeEntry
    \/ Loop1Done
    \/ TransformItem
    \/ CollectionDone
    \/ SameNameAttribute
    \/ Construct

Spec == Init /\ [][Next]_vars

-----------------------------------------------------------------------------
(* franca_to_ifex.py: the direct conversion of a Franca AST to an IFEX AST. *)
(* It does not use the translation table.  The model covers the structs and *)
(* the enumerations of the interfaces of a package.                         *)

\* an object of a pyfranca type class: cls is its class, type is <<the element
\* type>> for an Array and <<>> otherwise
francatypes_Type(cls, name, type) == [cls |-> cls, name |-> name, type |-> type]

Primitive(cls) == francatypes_Type(cls, cls, <<>>)

Reference(name) == francatypes_Type("Reference", name, <<>>)

EnumerationType(name) == francatypes_Type("Enumeration", name, <<>>)

Array(type) == francatypes_Type("Array", "", <<type>>)

Field(name, type) == [name |-> name, type |-> type]

francatypes_Struct(name, fields) == [cls |-> "Struct", name |-> name, fields |-> fields]

\* None as a value of the dict structs
NoStruct == [cls |-> "NoneType", name |-> "", fields |-> <<>>]

\* the value of an enumerator: an IntegerValue, another value class, or None
IntegerValue(value) == [cls |-> "IntegerValue", value |-> value]

StringValue == [cls |-> "StringValue", value |-> 0]

NoValue == [cls |-> "NoneType", value |-> 0]

Enumerator(name, value) == [name |-> name, value |-> value]

francatypes_Enumeration(name, enumerators) == [name |-> name, enumerators |-> enumerators]

Interface(name, structs, enumerations) ==
    [name |-> name, structs |-> structs, enumerations |-> enumerations]

Package(interfaces) == [interfaces |-> interfaces]

\* objects of the IFEX AST
ifex_Member(name, datatype) == [name |-> name, datatype |-> datatype]

ifex_Struct(name, members) == [name |-> name, members |-> members]

ifex_Option(name, value) == [name |-> name, value |-> value]

ifex_Enumeration(name, datatype, options) ==
    [name |-> name, datatype |-> datatype, options |-> options]

\* the dict type_translation, keyed by the class
type_translation ==
    [Boolean |-> "boolean", ByteBuffer |-> "uint8[]", ComplexType |-> "opaque",
     Double |-> "double", Float |-> "float", Int8 |-> "int8", Int16 |-> "int16",
     Int32 |-> "int32", Int64 |-> "int64", String |-> "string", UInt8 |-> "uint8",
     UInt16 |-> "uint16", UInt32 |-> "uint32", UInt64 |-> "uint64"]

RECURSIVE translate_type(_)
translate_type(t) ==
    IF t.cls = "Enumeration" THEN t.name
    ELSE IF t.cls = "Reference" THEN t.name
    ELSE IF t.cls = "Array" THEN translate_type(t.type[1]) \o "[]"
    ELSE IF t.cls \in DOMAIN type_translation THEN type_translation[t.cls]
    ELSE t

\* flatmap(function, input_array), given the lists the function returned
RECURSIVE flatten(_)
flatten(lists) == IF lists = <<>> THEN <<>> ELSE Head(lists) \o flatten(Tail(lists))

combined_name(parent, item) == parent \o "_" \o item

\* Fields_to_Members with the members in reverse order
Fields_to_Members_reversed(franca_fields) ==
    [i \in 1..Len(franca_fields) |->
        LET f == franca_fields[Len(franca_fields) + 1 - i]
        IN  ifex_Member(f.name, translate_type(f.type))]

Fields_to_Members(franca_fields) ==
    [i \in 1..Len(franca_fields) |->
        ifex_Member(franca_fields[i].name, translate_type(franca_fields[i].type))]

is_not_None(item) == item.cls # "NoneType"

Structs_in_Interface(franca_interface) ==
    LET items == SelectSeq(franca_interface.structs, is_not_None)
    IN  [i \in 1..Len(items) |->
            ifex_Struct(combined_name(franca_interface.name, items[i].name),
                        Fields_to_Members(items[i].fields))]

\* the typecollections of the package are empty
Structs_in_Package(franca_package) ==
    flatten([i \in 1..Len(franca_package.interfaces) |->
                Structs_in_Interface(franca_package.interfaces[i])])

\* Enumerator_Value raises Exception
Enumerator_Value_raises(v) == v.cls \notin {"IntegerValue", "NoneType"}

Enumerator_Value(v) == IF v.cls = "IntegerValue" THEN IntV(v.value) ELSE None

\* Enumerators_to_Options raises Exception: no enumerator, or one whose value does
Enumerators_to_Options_raises(enumerators) ==
    \/ Len(enumerators) = 0
    \/ \E i \in 1..Len(enumerators) : Enumerator_Value_raises(enumerators[i].value)

Enumerators_to_Options(enumerators) ==
    [i \in 1..Len(enumerators) |->
        ifex_Option(enumerators[i].name, Enumerator_Value(enumerators[i].value))]

Enumerations_in_Interface(franca_interface) ==
    [i \in 1..Len(franca_interface.enumerations) |->
        LET item == franca_interface.enumerations[i]
        IN  ifex_Enumeration(combined_name(franca_interface.name, item.name), "int32",
                             Enumerators_to_Options(item.enumerators))]

Enumerations_in_Package(franca_package) ==
    flatten([i \in 1..Len(franca_package.interfaces) |->
                Enumerations_in_Interface(franca_package.interfaces[i])])

Enumerations_in_Package_raises(franca_package) ==
    \E i \in 1..Len(franca_package.interfaces) :
        \E e \in 1..Len(franca_package.interfaces[i].enumerations) :
            Enumerators_to_Options_raises(
                franca_package.interfaces[i].enumerations[e].enumerators)

\* Inputs.  The types a field can have; field and enumerator i of an object
\* are named by their position.
FieldTypes ==
    { Primitive("Int32"), Primitive("String"), Primitive("ByteBuffer"),
      Reference("MyStruct"), EnumerationType("MyEnum"),
      Array(Primitive("UInt8")), Array(Array(Reference("MyStruct"))) }

MemberNames == <<"a", "b", "c", "d">>

EnumeratorNames == <<"A", "B", "C", "D", "E">>

MaxEnumerators == MaxLen + 1

Structs ==
    UNION {{francatypes_Struct("S", [i \in 1..n |-> Field(MemberNames[i], ts[i])]) :
               ts \in [1..n -> FieldTypes]} : n \in 0..MaxLen}

EnumeratorValues == {IntegerValue(5), NoValue, StringValue}

Enumerations ==
    UNION {{francatypes_Enumeration("E",
                [i \in 1..n |-> Enumerator(EnumeratorNames[i], vs[i])]) :
               vs \in [1..n -> EnumeratorValues]} : n \in 0..MaxEnumerators}

\* scenario B of the specification
StructB ==
    francatypes_Struct("B", <<Field("a", Primitive("Int32")),
                              Field("b", Primitive("String"))>>)

\* scenario A of the specification
EnumerationA ==
    francatypes_Enumeration("A", <<Enumerator("A", IntegerValue(5)),
                                   Enumerator("B", NoValue), Enumerator("C", NoValue)>>)

Packages ==
    {Package(<<Interface("I", <<s>>, <<>>)>>) : s \in Structs}
    \cup {Package(<<Interface("I", <<>>, <<e>>)>>) : e \in Enumerations}
    \cup {Package(<<Interface("I", <<StructB, NoStruct, s>>, <<EnumerationA>>),
                    Interface("J", <<s>>, <<EnumerationA>>)>>) : s \in Structs}

\* franca_to_ifex(package) is called
FrancaInit ==
    /\ mapping_table = Table(<<>>, <<>>, <<>>)
    /\ table0 = mapping_table
    /\ stack = <<>>
    /\ outcome = NoOutcome
    /\ runs = 0
    /\ counter = CounterInit
    /\ log_calls = <<>>
    /\ last_tvc = NoTvc
    /\ built = <<>>
    /\ \E package \in Packages :
           conversion = [NoConversion EXCEPT !.pc = "start", !.package = package]

\* line 170: structs = Structs_in_Package(package)
StructsStep ==
    /\ conversion.pc = "start"
    /\ conversion' = [conversion EXCEPT !.pc = "structs",
                         !.structs = Structs_in_Package(conversion.package)]
    /\ UNCHANGED <<mapping_table, table0, stack, outcome, runs, counter, log_calls,
                   last_tvc, built>>

\* line 172: enumerations = Enumerations_in_Package(package); an exception ends
\* the conversion
EnumerationsStep ==
    /\ conversion.pc = "structs"
    /\ IF Enumerations_in_Package_raises(conversion.package)
       THEN conversion' = [conversion EXCEPT !.pc = "raised"]
       ELSE conversion' = [conversion EXCEPT !.pc = "namespace",
                              !.enumerations = Enumerations_in_Package(conversion.package)]
    /\ UNCHANGED <<mapping_table, table0, stack, outcome, runs, counter, log_calls,
                   last_tvc, built>>

FrancaNext == StructsStep \/ EnumerationsStep

FrancaSpec == FrancaInit /\ [][FrancaNext]_vars

-----------------------------------------------------------------------------
(* Properties *)

\* history: the transform() calls that have returned and are still on record,
\* each with its input and its result
Returned ==
    UNION {{stack[d].calls[n] : n \in 1..Len(stack[d].calls)} : d \in 1..Len(stack)}
    \cup (IF outcome.status = "returned"
          THEN {[arg |-> outcome.arg, ret |-> outcome.value]}
          ELSE {})

\* x is an object of an AST class or an OrderedDict
Composite(x) == x.k \in {"node", "odict"}

\* the source classes that are the first component of a key of type_map
MappedClasses == {type_map[i].from_class : i \in 1..Len(type_map)}

\* C1: a transform call on an object whose class is the source component of some
\* type_map key returns, when it returns, an instance of the target class of the
\* first such key in table order, whatever later keys with that source class say.
C1_FirstKeyDecidesTargetClass ==
    \A c \in Returned :
        (Composite(c.arg) /\ class_of(c.arg) \in MappedClasses) =>
            \E i \in 1..Len(type_map) :
                /\ type_map[i].from_class = class_of(c.arg)
                /\ \A j \in 1..(i - 1) : type_map[j].from_class # class_of(c.arg)
                /\ c.ret.k = "tnode"
                /\ c.ret.cls = type_map[i].to_class

\* a top-level call on an SA object has returned a TX object whose items are TY
\* objects, although (SA, TY) and (SB, TX) are keys of the table too
C1_Witness ==
    /\ outcome.status = "returned"
    /\ outcome.arg.cls = "SA"
    /\ outcome.value.cls = "TX"
    /\ \E k \in 1..Len(outcome.value.items) :
           /\ outcome.value.items[k].name = "items"
           /\ Len(outcome.value.items[k].val.items) = 2
           /\ \A n \in 1..2 : outcome.value.items[k].val.items[n].val.cls = "TY"

\* C2: when transform is entered, at any depth, with an object that is no builtin
\* and whose class has no type_map key, the next step raises an exception that
\* leaves the top-level call: no call remains active and nothing is returned.
C2_UnmappedAborts ==
    [][(/\ stack # <<>>
        /\ top.pc = "start"
        /\ Composite(top.obj)
        /\ class_of(top.obj) \notin MappedClasses)
       => (/\ stack' = <<>>
           /\ outcome'.status = "raised"
           /\ outcome'.exc = "TypeError"
           /\ outcome'.value = None)]_vars

\* the exception came from a call two levels below the top-level call
C2_Witness ==
    /\ outcome.status = "raised"
    /\ outcome.line = 318
    /\ outcome.depth >= 3
    /\ stack = <<>>

\* C3: the value transform_value_common produces for an OrderedDict or a list of
\* n elements is a list of n elements, the i-th being the result of the
\* transform call made for the i-th element in iteration order.
C3_CollectionKeepsOrder ==
    last_tvc.n > 0 =>
        /\ last_tvc.out.k = "list"
        /\ Len(last_tvc.out.items) = Len(last_tvc.src)
        /\ Len(last_tvc.calls) = Len(last_tvc.src)
        /\ \A i \in 1..Len(last_tvc.src) :
               /\ last_tvc.calls[i].arg = last_tvc.src[i].val
               /\ last_tvc.out.items[i].val = last_tvc.calls[i].ret

\* an OrderedDict of two different elements has been transformed
C3_Witness ==
    /\ last_tvc.n > 0
    /\ Len(last_tvc.src) = 2
    /\ last_tvc.src[1].name = "a"
    /\ last_tvc.src[1].val # last_tvc.src[2].val
    /\ last_tvc.out.items[1].val # last_tvc.out.items[2].val

\* the frame has finished both loops: attributes is what the constructor gets
Assembled(f) == f.pc = "loop2" /\ f.i > Len(f.obj.items)

\* the rule list used by the returned call c: the one of the key
\* (class of the input, class of the result)
RuleListOf(c) ==
    LET i == CHOOSE i \in 1..Len(type_map) :
                 /\ type_map[i].from_class = class_of(c.arg)
                 /\ type_map[i].to_class = c.ret.cls
    IN  table0.type_map[i].mappings

\* the list a value denotes now (a list the table holds is read from the table)
Deref(v) ==
    IF v.k = "ref"
    THEN mapping_table.type_map[v.n].mappings[v.m].const_value
    ELSE v

\* C4 (as stated): an attribute mapped to None contributes nothing to the
\* attribute set assembled by the two loops, also when the target class declares
\* a field of that name or of the name the global attribute map gives it.
C4_IgnoredContributesNothing ==
    (stack # <<>> /\ Assembled(top)) =>
        \A m \in 1..Len(mappings) :
            (~mappings[m].prep /\ mappings[m].output_attr = NoneName) =>
                \A k \in 1..Len(top.origin) : \A n \in 1..Len(top.origin[k]) :
                    top.origin[k][n] # mappings[m].input_attr

\* C5 (as stated): every object returned under a rule list with an entry
\* (Constant(v), t) has attribute t equal to v.
C5_ConstantAlwaysWritten ==
    \A c \in Returned :
        c.ret.k = "tnode" =>
            \A m \in 1..Len(RuleListOf(c)) :
                RuleListOf(c)[m].const =>
                    \E k \in 1..Len(c.ret.items) :
                        /\ c.ret.items[k].name = RuleListOf(c)[m].output_attr
                        /\ Deref(c.ret.items[k].val) = RuleListOf(c)[m].const_value

\* C5 (amended): every object returned under a rule list with an entry
\* (Constant(v), t) that no earlier entry of the list maps to t has attribute t
\* equal to v, in every call made with the table.
C5_ConstantWrittenWhenFirst ==
    \A c \in Returned :
        c.ret.k = "tnode" =>
            \A m \in 1..Len(RuleListOf(c)) :
                (/\ RuleListOf(c)[m].const
                 /\ \A e \in 1..(m - 1) :
                        RuleListOf(c)[e].output_attr # RuleListOf(c)[m].output_attr) =>
                    \E k \in 1..Len(c.ret.items) :
                        /\ c.ret.items[k].name = RuleListOf(c)[m].output_attr
                        /\ Deref(c.ret.items[k].val) = RuleListOf(c)[m].const_value

\* the second top-level call under the rule list <<(Constant(5), "t")>> has
\* returned an object with t = 5
C5_Witness ==
    /\ runs = 2
    /\ outcome.status = "returned"
    /\ outcome.arg.cls = "SA"
    /\ type_map[1].mappings # <<>>
    /\ type_map[1].mappings[1].const
    /\ \E k \in 1..Len(outcome.value.items) : outcome.value.items[k] = Item("t", IntV(5))

\* C6 (as stated): under an entry (a, Unsupported), a value of a other than None
\* appears on no attribute of the object returned.
C6_UnsupportedValueNeverCopied ==
    \A c \in Returned :
        c.ret.k = "tnode" =>
            \A m \in 1..Len(RuleListOf(c)) :
                (~RuleListOf(c)[m].prep /\ RuleListOf(c)[m].output_attr = UnsupportedName) =>
                    LET idx == IndexOf(c.arg.items, RuleListOf(c)[m].input_attr)
                    IN  (idx # 0 /\ c.arg.items[idx].val # None) =>
                            \A k \in 1..Len(c.ret.items) :
                                c.ret.items[k].val # c.arg.items[idx].val

\* C7 (as stated): a second contribution to an attribute whose value is not a
\* list does not end the call: no transform call is aborted in set_attr.
C7_ConflictIsNotFatal ==
    ~(outcome.status = "raised" /\ outcome.line = 177)

\* the elements of the list object v, read in the table when the table holds it
ItemsOf(table, v) ==
    IF v.k = "ref" THEN table.type_map[v.n].mappings[v.m].const_value.items ELSE v.items

\* the value the step of the innermost frame hands to set_attr
Contribution ==
    IF top.pc = "items" THEN List(top.acc)
    ELSE IF top.pc = "loop2" THEN top.obj.items[top.i].val
    ELSE IF mappings[top.i].const THEN mappings[top.i].const_value
    ELSE transform_call(mappings[top.i].fn, top'.value[1], counter).val

\* C8: a contribution to an attribute that already holds a list leaves the
\* elements the list had in place and in order and adds the contribution as one
\* new last element, so that earlier entries' contributions precede later ones.
C8_ListGrowsByOne ==
    [][(stack # <<>> /\ stack' # <<>> /\ Len(stack') = Len(stack)) =>
          \A k \in 1..Len(top.attributes) :
              (/\ top.attributes[k].val.k \in {"list", "ref"}
               /\ Len(top'.origin[k]) > Len(top.origin[k])) =>
                  LET old == ItemsOf(mapping_table, top.attributes[k].val)
                      new == ItemsOf(mapping_table', top'.attributes[k].val)
                  IN  /\ top'.attributes[k].name = top.attributes[k].name
                      /\ Len(new) = Len(old) + 1
                      /\ SubSeq(new, 1, Len(old)) = old
                      /\ new[Len(new)].val = Contribution]_vars

\* entries "items" and "kids" of one rule list have both written attribute t: the
\* two elements of items come first, the list made from kids is the third element
C8_Witness ==
    /\ stack # <<>>
    /\ \E k \in 1..Len(top.attributes) :
           /\ top.attributes[k].name = "t"
           /\ top.origin[k] = <<"items", "kids">>
           /\ Len(top.attributes[k].val.items) = 3
           /\ top.attributes[k].val.items[1].val.k = "tnode"
           /\ top.attributes[k].val.items[3].val.k = "list"
           /\ Len(top.attributes[k].val.items[3].val.items) = 2

\* the Preparation entries among the first n entries of the rule list ml
PrepEntries(ml, n) == {e \in 1..n : ml[e].prep}

\* C9: in every transform call the entries of the rule list are processed in
\* table order, a Preparation entry's function is called once, when the loop
\* reaches the entry, and all of them have been called once when the first loop
\* is over; the counter the function resets has its initial value when the
\* entry after it is processed, in each call.
C9_PreparationInOrder ==
    \A d \in 1..Len(stack) :
        stack[d].ti # 0 =>
            LET f == stack[d]
                ml == type_map[f.ti].mappings
            IN  /\ f.order = [n \in 1..Len(f.order) |-> n]
                /\ f.phase = 1 => Len(f.order) \in {f.i - 1, f.i}
                /\ f.phase = 2 => Len(f.order) = Len(ml)
                /\ f.hooks = Cardinality(PrepEntries(ml, Len(f.order)))
                /\ f.phase = 2 => f.hooks = Cardinality(PrepEntries(ml, Len(ml)))
                /\ (d = Len(stack) /\ f.pc = "loop1" /\ f.i > 1 /\ f.i <= Len(ml)
                      /\ ml[f.i - 1].prep)
                   => counter = CounterInit

\* the second of two sibling SB objects is being transformed: the first has
\* counted (its x is the initial value), the function has run again and the
\* counter is back at its initial value before the next entry is processed
C9_Witness ==
    /\ Len(stack) >= 2
    /\ top.obj.cls = "SB"
    /\ top.pc = "loop1"
    /\ top.i = 2
    /\ top.hooks = 1
    /\ stack[Len(stack) - 1].j = 2
    /\ stack[Len(stack) - 1].acc[1].k = "tnode"
    /\ \E k \in 1..2 : stack[Len(stack) - 1].acc[1].items[k] = Item("x", IntV(CounterInit))
    /\ counter = CounterInit

\* C10: the table is never changed by transform: type_map (with the const_value
\* of every Constant) and global_attribute_map are what they were before the
\* first call.
C10_TableUnchanged == mapping_table = table0

\* the second call under a rule list whose Constant holds a list and whose next
\* entry maps to the same attribute has ended
C10_Witness ==
    /\ runs = 2
    /\ stack = <<>>
    /\ outcome.status = "raised"
    /\ type_map[1].mappings # <<>>
    /\ type_map[1].mappings[1].const
    /\ type_map[1].mappings[1].const_value.k = "list"
    /\ type_map[1].mappings[2].output_attr = type_map[1].mappings[1].output_attr

\* an object of a source class is v itself or lies somewhere inside v
RECURSIVE SourceInside(_)
SourceInside(v) ==
    \/ v.k = "node"
    \/ \E i \in 1..Len(v.items) : SourceInside(v.items[i].val)

\* C11: an attribute value that is an object of an AST class reaches the target
\* translated by the rules of the table, every other value is copied as it is:
\* no attribute of a returned target node holds, at any depth, an object of a
\* source class.
C11_AstValuesAreTranslated ==
    \A c \in Returned :
        c.ret.k = "tnode" =>
            \A i \in 1..Len(c.ret.items) : ~SourceInside(c.ret.items[i].val)

\* the value stored under key k of attributes, <<>> if there is none
AttrOf(attributes, k) ==
    IF k \in Names(attributes) THEN <<attributes[IndexOf(attributes, k)].val>> ELSE <<>>

\* going from the attribute set old to new, only key b was written
WrittenOnly(old, new, b) ==
    \A k \in Names(old) \cup Names(new) : k # b => AttrOf(old, k) = AttrOf(new, k)

\* what the global attribute map says of the source attribute a: its entry, or
\* a itself when it has none
Candidate(a) ==
    LET gam == table0.global_attribute_map
    IN  IF \E e \in 1..Len(gam) : gam[e].name = a
        THEN (CHOOSE e \in 1..Len(gam) : gam[e].name = a)
        ELSE 0

\* C12: in the second loop, for a source attribute a that the first loop did not
\* handle: when the global attribute map maps a to None, the step writes no
\* target attribute and logs no unmapped-attribute warning; when it maps a to a
\* name b the target class declares, the value of a (a collection: the list of
\* its transformed elements) is written to b and to no other key; when a has no
\* entry, the name tried is a itself.
C12_GlobalNameDecidesTarget ==
    [][(/\ stack # <<>>
        /\ top.phase = 2
        /\ top.i <= Len(top.obj.items)
        /\ top.obj.items[top.i].name \notin top.done_attrs
        /\ top.pc = "loop2" \/ (top.pc = "items" /\ top.j > Len(top.src))) =>
          LET a == top.obj.items[top.i]
              e == Candidate(a.name)
              b == IF e = 0 THEN a.name ELSE table0.global_attribute_map[e].val
              d == Len(stack)
              declared == b \in dataclass_fields(to_class)
              written == IF top.pc = "items" THEN List(top.acc) ELSE a.val
          IN  \/ /\ stack' = <<>>
                 /\ outcome'.status = "raised"
                 /\ declared
                 /\ b \in Names(top.attributes)
              \/ /\ Len(stack') = d
                 /\ WrittenOnly(top.attributes, stack'[d].attributes, b)
                 /\ IF top.pc = "items"
                    THEN /\ top.key = b
                         /\ stack'[d].i = top.i + 1
                         /\ LET v == AttrOf(stack'[d].attributes, b)[1]
                            IN  IF b \in Names(top.attributes)
                                THEN ItemsOf(mapping_table', v)[Len(ItemsOf(mapping_table', v))].val
                                         = written
                                ELSE v = written
                    ELSE IF b = NoneName \/ ~declared
                    THEN /\ stack'[d].attributes = top.attributes
                         /\ stack'[d].i = top.i + 1
                         /\ b = NoneName => log_calls' = log_calls
                    ELSE IF is_collection(a.val)
                    THEN /\ stack'[d].pc = "items"
                         /\ stack'[d].key = b
                         /\ stack'[d].src = a.val.items
                         /\ stack'[d].attributes = top.attributes
                    ELSE /\ stack'[d].i = top.i + 1
                         /\ LET v == AttrOf(stack'[d].attributes, b)[1]
                            IN  IF b \in Names(top.attributes)
                                THEN ItemsOf(mapping_table', v)[Len(ItemsOf(mapping_table', v))].val
                                         = written
                                ELSE v = written]_vars

\* under the global attribute map {y: t, kids: None} and an empty rule list, both
\* loops of the root are finished: t holds the value of y, neither y nor kids is
\* a key, name went to name, and no warning was logged
C12_Witness ==
    /\ table0 = Table(<<>>, <<>>, Renames)
    /\ Len(stack) = 1
    /\ Assembled(top)
    /\ AttrOf(top.attributes, "t") = <<IntV(8)>>
    /\ AttrOf(top.attributes, "name") = <<IntV(1)>>
    /\ Names(top.attributes) = {"name", "x", "t", "items"}
    /\ "WARN" \notin {log_calls[n] : n \in 1..Len(log_calls)}

\* the structs of the package in the order the conversion meets them, None left out
SourceStructs ==
    flatten([i \in 1..Len(conversion.package.interfaces) |->
                SelectSeq(conversion.package.interfaces[i].structs, is_not_None)])

\* C13: a Franca struct with fields f1..fn becomes an IFEX Struct whose members
\* list has exactly n entries, entry i with the name of fi and the datatype
\* translate_type(fi.type), in the order of the fields; the fields
\* [a: Int32, b: String] give the members [(a, int32), (b, string)].
C13_MembersFollowFields ==
    conversion.pc \in {"structs", "namespace", "raised"} =>
        /\ Len(conversion.structs) = Len(SourceStructs)
        /\ \A k \in 1..Len(SourceStructs) :
               LET fields == SourceStructs[k].fields
                   members == conversion.structs[k].members
               IN  /\ Len(members) = Len(fields)
                   /\ \A i \in 1..Len(fields) :
                          /\ members[i].name = fields[i].name
                          /\ members[i].datatype = translate_type(fields[i].type)
                   /\ fields = StructB.fields =>
                          members = << [name |-> "a", datatype |-> "int32"],
                                       [name |-> "b", datatype |-> "string"] >>

\* the structs of a package are converted: the struct of scenario B, and one with
\* a field of a nested array type followed by a ByteBuffer field
C13_Witness ==
    /\ conversion.pc = "structs"
    /\ Len(conversion.structs) = 3
    /\ conversion.structs[1] =
           ifex_Struct("I_B", << [name |-> "a", datatype |-> "int32"],
                                 [name |-> "b", datatype |-> "string"] >>)
    /\ conversion.structs[2] =
           ifex_Struct("I_S", << [name |-> "a", datatype |-> "MyStruct[][]"],
                                 [name |-> "b", datatype |-> "uint8[]"] >>)

\* the enumerations of the package in the order the conversion meets them
SourceEnumerations ==
    flatten([i \in 1..Len(conversion.package.interfaces) |->
                conversion.package.interfaces[i].enumerations])

\* C14: a converted enumeration has one option per enumerator, in source order;
\* an enumerator with an explicit value keeps it, and the enumerators without a
\* value get 0, 1, ... in traversal order, counted anew in every enumeration
\* (values 5, none, none give 5, 0, 1).
C14_UnvaluedEnumeratorsNumbered ==
    conversion.pc = "namespace" =>
        /\ Len(conversion.enumerations) = Len(SourceEnumerations)
        /\ \A k \in 1..Len(SourceEnumerations) :
               LET enumerators == SourceEnumerations[k].enumerators
                   options == conversion.enumerations[k].options
               IN  /\ Len(options) = Len(enumerators)
                   /\ \A i \in 1..Len(enumerators) :
                          /\ options[i].name = enumerators[i].name
                          /\ options[i].value =
                                 IF enumerators[i].value.cls = "IntegerValue"
                                 THEN IntV(enumerators[i].value.value)
                                 ELSE IntV(Cardinality(
                                          {j \in 1..(i - 1) :
                                              enumerators[j].value.cls = "NoneType"}))

\* the target objects that are v or lie inside v
RECURSIVE TargetNodes(_)
TargetNodes(v) ==
    (IF v.k = "tnode" THEN {v} ELSE {})
    \cup UNION {TargetNodes(v.items[i].val) : i \in 1..Len(v.items)}

\* C15: the target tree is built bottom-up.  A target object is constructed only
\* when both loops of its transform call are finished, from the attributes they
\* assembled, and every target object those attributes hold was constructed in
\* an earlier step; the objects constructed earlier in the run stay as they
\* were constructed, list attributes included, in every step of the run.
C15_BuiltBottomUp ==
    [][/\ Len(built') = Len(built) + 1 =>
             LET node == built'[Len(built')]
             IN  /\ stack # <<>>
                 /\ top.pc = "loop2"
                 /\ Len(top.order) = Len(mappings)
                 /\ top.i > Len(top.obj.items)
                 /\ node.k = "tnode"
                 /\ node.items = top.attributes
                 /\ \A i \in 1..Len(top.attributes) :
                        \A c \in TargetNodes(top.attributes[i].val) :
                            \E n \in 1..Len(built) : built[n] = c
       /\ \/ built' = <<>> /\ stack = <<>>
          \/ /\ Len(built') \in {Len(built), Len(built) + 1}
             /\ \A n \in 1..Len(built) :
                    /\ built'[n] = built[n]
                    /\ \A i \in 1..Len(built[n].items) :
                           LET v == built[n].items[i].val
                           IN  ItemsOf(mapping_table', v) = ItemsOf(mapping_table, v)]_vars

\* a run has returned a target object built from five constructions: the two
\* elements of items, the two of kids, then the root that holds them
C15_Witness ==
    /\ outcome.status = "returned"
    /\ Len(built) = 5
    /\ built[5] = outcome.value
    /\ AttrOf(outcome.value.items, "items") = <<List(<<built[1], built[2]>>)>>
    /\ AttrOf(outcome.value.items, "kids") = <<List(<<built[3], built[4]>>)>>
    /\ built[1] # built[2]

====
